---- MODULE Spec2Model ----
(***************************************************************************)
(* Model of the parse-csv edge function of csv-pals                        *)
(* (supabase/functions/parse-csv/index.ts).  The file holds two variants   *)
(* of the function: the strict one (lines 1-308: validation, sanitizing,   *)
(* role check, random passwords) and the permissive one (lines 310-473).   *)
(*                                                                         *)
(* A JavaScript string is a sequence of one-character strings.  The CSV    *)
(* text of a request is a record [text, pad]: the characters `text`        *)
(* followed by `pad` space characters, so that an input longer than        *)
(* maxFileSize can be held without enumerating five million characters.    *)
(* JavaScript indices are kept 0-based (At, findIndex, the loop index i).  *)
(* An optional value (null / not yet assigned) is a sequence of length 0   *)
(* or 1.                                                                   *)
(*                                                                         *)
(* Three specifications share the variables: Spec runs the request         *)
(* handler, SpecHelpers applies one helper function to one argument, and   *)
(* SpecClient runs the uploader component (src/components/CSVUploader.tsx).*)
(***************************************************************************)
EXTENDS Integers, Sequences, FiniteSets, TLC

(***************************************************************************)
(* Characters                                                              *)
(***************************************************************************)
LowerSeq == <<"a","b","c","d","e","f","g","h","i","j","k","l","m",
              "n","o","p","q","r","s","t","u","v","w","x","y","z">>
UpperSeq == <<"A","B","C","D","E","F","G","H","I","J","K","L","M",
              "N","O","P","Q","R","S","T","U","V","W","X","Y","Z">>
DigitSeq == <<"0","1","2","3","4","5","6","7","8","9">>

LowerSet == {LowerSeq[k] : k \in 1..26}
UpperSet == {UpperSeq[k] : k \in 1..26}
DigitSet == {DigitSeq[k] : k \in 1..10}

\* \s of a JavaScript regular expression and the characters trim() removes
\* (the members that occur in the inputs of this model)
SpaceSet == {" ", "\t", "\r", "\n"}

QuoteSet == {"\"", "'"}

FormulaSet == {"=", "+", "-", "@"}

IsSpace(c) == c \in SpaceSet

NotSpace(c) == c \notin SpaceSet

toLowerChar(c) ==
  IF c \in UpperSet THEN LowerSeq[CHOOSE k \in 1..26 : UpperSeq[k] = c] ELSE c

toUpperChar(c) ==
  IF c \in LowerSet THEN UpperSeq[CHOOSE k \in 1..26 : LowerSeq[k] = c] ELSE c

DigitValue(c) == (CHOOSE k \in 1..10 : DigitSeq[k] = c) - 1

(***************************************************************************)
(* String methods (no recursion: the inputs reach a few thousand chars)    *)
(***************************************************************************)
\* the value JavaScript calls undefined (an array read past the end)
undefined == <<"undefined">>

\* a[k] of a JavaScript array, k counted from 0
At(a, k) == IF k >= 0 /\ k < Len(a) THEN a[k + 1] ELSE undefined

Indices(s) == [p \in 1..Len(s) |-> p]

\* String.prototype.toLowerCase
toLowerCase(s) == [p \in 1..Len(s) |-> toLowerChar(s[p])]

\* String.prototype.trim
trim(s) ==
  LET Keep(p) == NotSpace(s[p])
      ns == SelectSeq(Indices(s), Keep)
  IN  IF ns = <<>> THEN <<>> ELSE SubSeq(s, ns[1], ns[Len(ns)])

\* String.prototype.split(sep) for a one-character separator
split(s, sep) ==
  LET n == Len(s)
      IsSep(p) == s[p] = sep
      sp == SelectSeq(Indices(s), IsSep)
      m == Len(sp)
  IN  [k \in 1..(m + 1) |->
         SubSeq(s, IF k = 1 THEN 1 ELSE sp[k - 1] + 1,
                   IF k = m + 1 THEN n ELSE sp[k] - 1)]

\* String.prototype.includes
includes(s, w) ==
  \E p \in 1..(Len(s) - Len(w) + 1) : SubSeq(s, p, p + Len(w) - 1) = w

\* String.prototype.startsWith for a one-character prefix
startsWith(s, c) == Len(s) > 0 /\ s[1] = c

\* s.replace(/^["']|["']$/g, ""): one leading and one trailing quote
stripQuotes(s) ==
  LET n == Len(s)
      lead == n > 0 /\ s[1] \in QuoteSet
      trail == n > 0 /\ s[n] \in QuoteSet /\ (n >= 2 \/ ~lead)
  IN  SubSeq(s, IF lead THEN 2 ELSE 1, IF trail THEN n - 1 ELSE n)

\* s.replace(/\s+/g, "."): every run of whitespace becomes one period
replaceSpaceRuns(s) ==
  LET mark == [p \in 1..Len(s) |->
                 IF NotSpace(s[p]) THEN s[p]
                 ELSE IF p = 1 \/ NotSpace(s[p - 1]) THEN "." ELSE ""]
      Kept(c) == c # ""
  IN  SelectSeq(mark, Kept)

\* Array.prototype.findIndex: first 0-based index whose element passes, or -1
findIndex(a, Test(_)) ==
  LET Pass(p) == Test(a[p])
      hits == SelectSeq(Indices(a), Pass)
  IN  IF hits = <<>> THEN -1 ELSE hits[1] - 1

\* Array.prototype.map
map(a, F(_)) == [p \in 1..Len(a) |-> F(a[p])]

\* the words used by the header matching
W_name == <<"n","a","m","e">>
W_full_name == <<"f","u","l","l","_","n","a","m","e">>
W_fullname == <<"f","u","l","l","n","a","m","e">>
W_postal == <<"p","o","s","t","a","l">>
W_zip == <<"z","i","p">>
W_postal_code == <<"p","o","s","t","a","l","_","c","o","d","e">>
W_postalcode == <<"p","o","s","t","a","l","c","o","d","e">>
W_birth == <<"b","i","r","t","h">>
W_dob == <<"d","o","b">>
W_birthday == <<"b","i","r","t","h","d","a","y">>
W_date_of_birth == <<"d","a","t","e","_","o","f","_","b","i","r","t","h">>

(***************************************************************************)
(* VALIDATION and the field validators of the strict variant               *)
(***************************************************************************)
name_maxLength == 100
postal_code_maxLength == 20
minYear == 1900
maxRows == 1000
maxFileSize == 5 * 1024 * 1024

\* /^[a-zA-Z\s\-'.]+$/
name_pattern(s) ==
  /\ Len(s) >= 1
  /\ \A p \in 1..Len(s) :
       s[p] \in LowerSet \cup UpperSet \cup SpaceSet \cup {"-", "'", "."}

\* /^[A-Z0-9\s\-]+$/i
postal_code_pattern(s) ==
  /\ Len(s) >= 1
  /\ \A p \in 1..Len(s) :
       s[p] \in LowerSet \cup UpperSet \cup DigitSet \cup SpaceSet \cup {"-"}

\* /^\d{4}-\d{2}-\d{2}$/
birthday_pattern(s) ==
  /\ Len(s) = 10
  /\ \A p \in {1, 2, 3, 4, 6, 7, 9, 10} : s[p] \in DigitSet
  /\ s[5] = "-"
  /\ s[8] = "-"

\* parseInt(birthday.split("-")[0], 10) of a string that matched the pattern
yearOf(s) ==
  LET y == split(s, "-")[1]
  IN  DigitValue(y[1]) * 1000 + DigitValue(y[2]) * 100
        + DigitValue(y[3]) * 10 + DigitValue(y[4])

Valid == [valid |-> TRUE, error |-> ""]

Invalid(msg) == [valid |-> FALSE, error |-> msg]

sanitizeCSVValue(value) ==
  LET trimmed == stripQuotes(trim(value))
  IN  IF \E c \in FormulaSet : startsWith(trimmed, c)
      THEN SubSeq(trimmed, 2, Len(trimmed))
      ELSE trimmed

\* validateName without the pattern test
validateName_NoPattern(name) ==
  IF name = undefined \/ Len(name) = 0 THEN Invalid("Name is required")
  ELSE IF Len(name) > name_maxLength
    THEN Invalid("Name must be less than 100 characters")
  ELSE Valid

validateName(name) ==
  IF name = undefined \/ Len(name) = 0 THEN Invalid("Name is required")
  ELSE IF Len(name) > name_maxLength
    THEN Invalid("Name must be less than 100 characters")
  ELSE IF ~name_pattern(name) THEN Invalid("Name contains invalid characters")
  ELSE Valid

validatePostalCode(postalCode) ==
  IF postalCode = undefined \/ Len(postalCode) = 0
    THEN Invalid("Postal code is required")
  ELSE IF Len(postalCode) > postal_code_maxLength
    THEN Invalid("Postal code must be less than 20 characters")
  ELSE IF ~postal_code_pattern(postalCode)
    THEN Invalid("Postal code contains invalid characters")
  ELSE Valid

\* `Birth year must be between ${minYear} and ${maxYear}`
BirthYearError == "Birth year must be between minYear and maxYear"

\* validateBirthday without the test of the year
validateBirthday_NoRange(birthday, maxYear) ==
  IF birthday = undefined \/ Len(birthday) = 0
    THEN Invalid("Birthday is required")
  ELSE IF ~birthday_pattern(birthday)
    THEN Invalid("Birthday must be in YYYY-MM-DD format")
  ELSE Valid

\* maxYear is VALIDATION.birthday.maxYear, the year read when the module loaded
validateBirthday(birthday, maxYear) ==
  IF birthday = undefined \/ Len(birthday) = 0
    THEN Invalid("Birthday is required")
  ELSE IF ~birthday_pattern(birthday)
    THEN Invalid("Birthday must be in YYYY-MM-DD format")
  ELSE IF yearOf(birthday) < minYear \/ yearOf(birthday) > maxYear
    THEN Invalid(BirthYearError)
  ELSE Valid

(***************************************************************************)
(* Credential generation                                                   *)
(***************************************************************************)
AtCompany == <<"@","c","o","m","p","a","n","y",".","c","o","m">>

charset ==
  UpperSeq \o LowerSeq \o DigitSeq \o <<"!","@","#","$","%","^","&","*">>

IsLowerOrSpace(c) == c \in LowerSet \cup SpaceSet

IsDigit(c) == c \in DigitSet

\* generateEmail returning the clean name without the domain
generateEmail_NoDomain(name) ==
  replaceSpaceRuns(SelectSeq(trim(toLowerCase(name)), IsLowerOrSpace))

\* generateEmail of the strict variant
generateEmail(name) ==
  LET cleanName ==
        replaceSpaceRuns(SelectSeq(trim(toLowerCase(name)), IsLowerOrSpace))
  IN  cleanName \o AtCompany

\* generateEmail of the permissive variant
generateEmailP(name) ==
  LET cleanName == replaceSpaceRuns(trim(toLowerCase(name)))
  IN  cleanName \o AtCompany

\* generateSecurePassword, given the bytes crypto.getRandomValues wrote
generateSecurePassword(array) ==
  [k \in 1..Len(array) |-> charset[(array[k] % Len(charset)) + 1]]

\* generatePassword of the permissive variant
generatePassword(name, postalCode, birthday) ==
  LET t == trim(name)
      sp == SelectSeq(Indices(t), LAMBDA p : IsSpace(t[p]))
      firstInitial == IF t = <<>> THEN <<"A">> ELSE <<toUpperChar(t[1])>>
      lastInitial ==
        IF t = <<>> THEN <<"Z">>
        ELSE IF sp = <<>> THEN <<toUpperChar(t[1])>>
        ELSE <<toUpperChar(t[sp[Len(sp)] + 1])>>
      digits == SelectSeq(postalCode, IsDigit)
      postalDigits ==
        IF digits = <<>> THEN <<"0","0","0","0">>
        ELSE SubSeq(digits, IF Len(digits) > 4 THEN Len(digits) - 3 ELSE 1,
                    Len(digits))
      first == split(birthday, "-")[1]
      year == IF first = <<>> THEN <<"1","9","9","0">> ELSE first
  IN  firstInitial \o lastInitial \o postalDigits \o year \o <<"!">>

(***************************************************************************)
(* parseCSV of the strict variant, one operator per stretch of the code    *)
(***************************************************************************)
Error(text, args) == [text |-> text, args |-> args]

\* csvContent.length and csvContent.trim() of a [text, pad] string
Length(c) == Len(c.text) + c.pad

trimContent(c) == trim(c.text)

NotBlank(line) == Len(trim(line)) > 0

\* parseLimits without the row-count check
parseLimits_NoRowCount(csvContent) ==
  LET lines == SelectSeq(split(trimContent(csvContent), "\n"), NotBlank)
  IN  IF Length(csvContent) > maxFileSize
        THEN [threw |-> TRUE, lines |-> <<>>,
              error |-> Error("CSV file is too large", <<>>)]
      ELSE IF Len(lines) < 2
        THEN [threw |-> TRUE, lines |-> <<>>,
              error |-> Error("CSV must contain headers and at least one data row", <<>>)]
      ELSE [threw |-> FALSE, lines |-> lines, error |-> Error("", <<>>)]

\* lines 104-117: the size check, the split into lines and the row count
parseLimits(csvContent) ==
  LET lines == SelectSeq(split(trimContent(csvContent), "\n"), NotBlank)
  IN  IF Length(csvContent) > maxFileSize
        THEN [threw |-> TRUE, lines |-> <<>>,
              error |-> Error("CSV file is too large", <<>>)]
      ELSE IF Len(lines) < 2
        THEN [threw |-> TRUE, lines |-> <<>>,
              error |-> Error("CSV must contain headers and at least one data row", <<>>)]
      ELSE IF Len(lines) - 1 > maxRows
        THEN [threw |-> TRUE, lines |-> <<>>,
              error |-> Error("CSV has too many rows", <<>>)]
      ELSE [threw |-> FALSE, lines |-> lines, error |-> Error("", <<>>)]

IsNameHeader(h) == includes(h, W_name) \/ h = W_full_name \/ h = W_fullname

IsPostalHeader(h) ==
  includes(h, W_postal) \/ includes(h, W_zip) \/ h = W_postal_code
    \/ h = W_postalcode

IsBirthdayHeader(h) ==
  includes(h, W_birth) \/ includes(h, W_dob) \/ h = W_birthday
    \/ h = W_date_of_birth

\* missingColumns with the postal test copied from the name test
missingColumns_CopiedTest(nameIndex, postalIndex, birthdayIndex) ==
  (IF nameIndex = -1 THEN <<"name">> ELSE <<>>)
    \o (IF nameIndex = -1 THEN <<"postal code">> ELSE <<>>)
    \o (IF birthdayIndex = -1 THEN <<"birthday">> ELSE <<>>)

\* lines 137-140: the names pushed onto `missing`
missingColumns(nameIndex, postalIndex, birthdayIndex) ==
  (IF nameIndex = -1 THEN <<"name">> ELSE <<>>)
    \o (IF postalIndex = -1 THEN <<"postal code">> ELSE <<>>)
    \o (IF birthdayIndex = -1 THEN <<"birthday">> ELSE <<>>)

\* lines 120-145: the header line and the three column positions
parseHeaders(lines) ==
  LET headerLine == At(lines, 0)
      sanitizeLower(h) == toLowerCase(sanitizeCSVValue(h))
      headers == map(split(headerLine, ","), sanitizeLower)
      nameIndex == findIndex(headers, IsNameHeader)
      postalIndex == findIndex(headers, IsPostalHeader)
      birthdayIndex == findIndex(headers, IsBirthdayHeader)
      found == [headers |-> headers, nameIndex |-> nameIndex,
                postalIndex |-> postalIndex, birthdayIndex |-> birthdayIndex]
  IN  IF nameIndex = -1 \/ postalIndex = -1 \/ birthdayIndex = -1
        THEN [threw |-> TRUE, found |-> found,
              error |-> Error("CSV is missing required columns",
                              <<missingColumns(nameIndex, postalIndex, birthdayIndex),
                                headers>>)]
      ELSE [threw |-> FALSE, found |-> found, error |-> Error("", <<>>)]

RowError(i, v) == [row |-> i, error |-> v.error]

\* parseRow with the `continue` after a birthday error left out
parseRow_NoContinue(lines, i, cols, maxYear) ==
  LET line == trim(At(lines, i))
      values == map(split(line, ","), sanitizeCSVValue)
      name == At(values, cols.nameIndex)
      postal_code == At(values, cols.postalIndex)
      birthday == At(values, cols.birthdayIndex)
      nameValidation == validateName(name)
      postalValidation == validatePostalCode(postal_code)
      birthdayValidation == validateBirthday(birthday, maxYear)
      row == [name |-> name, postal_code |-> postal_code, birthday |-> birthday]
  IN  IF line = <<>> THEN [rows |-> <<>>, errors |-> <<>>]
      ELSE IF ~nameValidation.valid
        THEN [rows |-> <<>>, errors |-> <<RowError(i, nameValidation)>>]
      ELSE IF ~postalValidation.valid
        THEN [rows |-> <<>>, errors |-> <<RowError(i, postalValidation)>>]
      ELSE IF ~birthdayValidation.valid
        THEN [rows |-> <<row>>, errors |-> <<RowError(i, birthdayValidation)>>]
      ELSE [rows |-> <<row>>, errors |-> <<>>]

\* lines 153-181: one iteration of the loop over the data lines; the result
\* is what the iteration pushes onto rows and onto errors
parseRow(lines, i, cols, maxYear) ==
  LET line == trim(At(lines, i))
      values == map(split(line, ","), sanitizeCSVValue)
      name == At(values, cols.nameIndex)
      postal_code == At(values, cols.postalIndex)
      birthday == At(values, cols.birthdayIndex)
      nameValidation == validateName(name)
      postalValidation == validatePostalCode(postal_code)
      birthdayValidation == validateBirthday(birthday, maxYear)
  IN  IF line = <<>> THEN [rows |-> <<>>, errors |-> <<>>]
      ELSE IF ~nameValidation.valid
        THEN [rows |-> <<>>, errors |-> <<RowError(i, nameValidation)>>]
      ELSE IF ~postalValidation.valid
        THEN [rows |-> <<>>, errors |-> <<RowError(i, postalValidation)>>]
      ELSE IF ~birthdayValidation.valid
        THEN [rows |-> <<>>, errors |-> <<RowError(i, birthdayValidation)>>]
      ELSE [rows |-> <<[name |-> name, postal_code |-> postal_code,
                        birthday |-> birthday]>>,
            errors |-> <<>>]

\* errors.slice(0, 3)
slice3(errors) == SubSeq(errors, 1, IF Len(errors) > 3 THEN 3 ELSE Len(errors))

\* lines 188-192: the result of parseCSV once the loop has ended
parseResult(rows, errors) ==
  IF Len(rows) = 0
    THEN [threw |-> TRUE, rows |-> <<>>,
          error |-> Error("No valid data rows found in CSV", slice3(errors))]
  ELSE [threw |-> FALSE, rows |-> rows, error |-> Error("", <<>>)]

(***************************************************************************)
(* parseCSV of the permissive variant                                      *)
(***************************************************************************)
\* parseLimitsP accepting a single line
parseLimitsP_OneLine(csvContent) ==
  LET lines == split(trimContent(csvContent), "\n")
  IN  IF Len(lines) < 1
        THEN [threw |-> TRUE, lines |-> <<>>,
              error |-> Error("CSV must contain headers and at least one data row", <<>>)]
      ELSE [threw |-> FALSE, lines |-> lines, error |-> Error("", <<>>)]

\* lines 357-360
parseLimitsP(csvContent) ==
  LET lines == split(trimContent(csvContent), "\n")
  IN  IF Len(lines) < 2
        THEN [threw |-> TRUE, lines |-> <<>>,
              error |-> Error("CSV must contain headers and at least one data row", <<>>)]
      ELSE [threw |-> FALSE, lines |-> lines, error |-> Error("", <<>>)]

IsNameHeaderP(h) == includes(h, W_name)

IsPostalHeaderP(h) == includes(h, W_postal)

IsBirthdayHeaderP(h) == includes(h, W_birth)

\* lines 362-369
parseHeadersP(lines) ==
  LET trimLower(h) == toLowerCase(trim(h))
      headers == map(split(At(lines, 0), ","), trimLower)
      nameIndex == findIndex(headers, IsNameHeaderP)
      postalIndex == findIndex(headers, IsPostalHeaderP)
      birthdayIndex == findIndex(headers, IsBirthdayHeaderP)
      found == [headers |-> headers, nameIndex |-> nameIndex,
                postalIndex |-> postalIndex, birthdayIndex |-> birthdayIndex]
  IN  IF nameIndex = -1 \/ postalIndex = -1 \/ birthdayIndex = -1
        THEN [threw |-> TRUE, found |-> found,
              error |-> Error("CSV must contain 'name', 'postal_code', and 'birthday' columns",
                              <<>>)]
      ELSE [threw |-> FALSE, found |-> found, error |-> Error("", <<>>)]

\* lines 373-380: one iteration of the loop
parseRowP(lines, i, cols) ==
  LET trimUnquote(v) == stripQuotes(trim(v))
      values == map(split(At(lines, i), ","), trimUnquote)
  IN  IF Len(values) >= 3
        THEN [rows |-> <<[name |-> At(values, cols.nameIndex),
                          postal_code |-> At(values, cols.postalIndex),
                          birthday |-> At(values, cols.birthdayIndex)]>>,
              errors |-> <<>>]
      ELSE [rows |-> <<>>, errors |-> <<>>]

(***************************************************************************)
(* Inputs                                                                  *)
(***************************************************************************)
\* most data lines of an enumerated CSV
MaxDataLines == 2
\* the year in which the function's module is loaded
FirstYear == 2026
\* how many new years may pass between the load and the end of a request
MaxYearDrift == 1

\* name,postal_code,birthday
H_std ==
  <<"n","a","m","e",",","p","o","s","t","a","l","_","c","o","d","e",",","b","i","r","t","h","d","a","y">>
\* "Zip", DOB ,=FullName
H_alt ==
  <<"\"","Z","i","p","\"",","," ","D","O","B"," ",",","=","F","u","l","l","N","a","m","e">>
\* name,birthday
H_nopostal ==
  <<"n","a","m","e",",","b","i","r","t","h","d","a","y">>
\* id,city
H_none ==
  <<"i","d",",","c","i","t","y">>
\* Al B,A1 2,2000-01-02
D_ok ==
  <<"A","l"," ","B",",","A","1"," ","2",",","2","0","0","0","-","0","1","-","0","2">>
\*  "Di-O'x." , 75001 ,1900-12-31
D_quoted ==
  <<" ","\"","D","i","-","O","'","x",".","\""," ",","," ","7","5","0","0","1"," ",",","1","9","0","0","-","1","2","-","3","1">>
\* =Bo,9,1899-12-31
D_old ==
  <<"=","B","o",",","9",",","1","8","9","9","-","1","2","-","3","1">>
\* Cy,9,2099-01-01
D_future ==
  <<"C","y",",","9",",","2","0","9","9","-","0","1","-","0","1">>
\* Ed,1,2026-13-45
D_recent ==
  <<"E","d",",","1",",","2","0","2","6","-","1","3","-","4","5">>
\* D3,1,2000-01-01
D_badname ==
  <<"D","3",",","1",",","2","0","0","0","-","0","1","-","0","1">>
\* Fay
D_short ==
  <<"F","a","y">>
\* two spaces
D_blank ==
  <<" "," ">>
\* a-1,2001-02-03,Gus
D_alt ==
  <<"a","-","1",",","2","0","0","1","-","0","2","-","0","3",",","G","u","s">>

Headers == {H_std, H_alt, H_nopostal, H_none}

DataLines ==
  {D_ok, D_quoted, D_old, D_future, D_recent, D_badname, D_short, D_blank, D_alt}

\* the header and the data lines, each data line preceded by a newline
JoinLines(header, data) ==
  IF Len(data) = 0 THEN header
  ELSE IF Len(data) = 1 THEN header \o <<"\n">> \o data[1]
  ELSE IF Len(data) = 2 THEN header \o <<"\n">> \o data[1] \o <<"\n">> \o data[2]
  ELSE header \o <<"\n">> \o data[1] \o <<"\n">> \o data[2] \o <<"\n">> \o data[3]

SmallContents ==
  {[text |-> JoinLines(h, d), pad |-> 0] :
     h \in Headers,
     d \in UNION {[1..n -> DataLines] : n \in 0..MaxDataLines}}

\* a header followed by n data lines "x"
ManyRows(header, n) ==
  header \o [k \in 1..(2 * n) |-> IF k % 2 = 1 THEN "\n" ELSE "x"]

LargeContents ==
  { [text |-> ManyRows(H_std, maxRows), pad |-> 0],
    [text |-> ManyRows(H_std, maxRows + 1), pad |-> 0],
    [text |-> ManyRows(H_none, maxRows + 1), pad |-> 0],
    [text |-> JoinLines(H_std, <<D_ok>>), pad |-> maxFileSize],
    [text |-> JoinLines(H_none, <<D_short>>), pad |-> maxFileSize],
    [text |-> JoinLines(H_std, <<D_ok>>),
     pad |-> maxFileSize - Len(JoinLines(H_std, <<D_ok>>))] }

Contents == SmallContents \cup LargeContents

\* what req.json() finds: no JSON at all, an object without csvContent,
\* or an object whose csvContent is a string (the empty string included)
Bodies ==
  {[json |-> FALSE, csvContent |-> <<>>], [json |-> TRUE, csvContent |-> <<>>],
   [json |-> TRUE, csvContent |-> <<[text |-> <<>>, pad |-> 0]>>]}
    \cup {[json |-> TRUE, csvContent |-> <<c>>] : c \in Contents}

Methods == {"OPTIONS", "POST"}

\* the authorization header: absent, or "Bearer " followed by a token
AuthHeaders == {<<>>, <<"tok_admin">>, <<"tok_user">>, <<"tok_bad">>}

\* supabase.auth.getUser: the user a token belongs to, if any
getUser(token) ==
  IF token = "tok_admin" THEN <<"u1">>
  ELSE IF token = "tok_user" THEN <<"u2">>
  ELSE <<>>

\* the arrays crypto.getRandomValues may fill, for a given length
RandomArrays(length) ==
  {[k \in 1..length |-> (b * k) % 256] : b \in {69, 255}}

PasswordLength == 16

\* an imported_users row that exists before the request
ExistingRecord ==
  [imported_by |-> "u1", full_name |-> <<"Z","o","e">>,
   postal_code |-> <<"1">>,
   birthday |-> <<"1","9","9","9","-","0","1","-","0","1">>,
   generated_email |-> generateEmail(<<"Z","o","e">>),
   generated_password |-> generateSecurePassword([k \in 1..PasswordLength |-> 0])]

(***************************************************************************)
(* State                                                                   *)
(***************************************************************************)
VARIABLES
  variant,          \* which of the two function files is deployed
  birthday_maxYear, \* VALIDATION.birthday.maxYear, fixed at module load
  currentYear,      \* the calendar year now
  user_roles,       \* table user_roles
  imported_users,   \* table imported_users, in insertion order
  pc,               \* where the handler is
  req,              \* the request: method and authorization header
  user,             \* the user of the token, once resolved
  userRole,         \* the admin row found by the role query
  csvContent,       \* csvContent of the body, once read
  lines, cols, i, rows, errors,  \* locals of parseCSV
  csvRows,          \* what parseCSV returned
  generatedUsers,
  responses,        \* the responses sent for this request
  fn, input, output,  \* a helper called on its own: its name, argument, result
  file,             \* CSVUploader: the selected file
  loading,          \* CSVUploader: the loading flag
  uploads,          \* CSVUploader: the uploads started, each with its stage
  toasts,           \* CSVUploader: the notifications shown, oldest first
  shownUsers        \* CSVUploader: generatedUsers, the table it renders

vars ==
  <<variant, birthday_maxYear, currentYear, user_roles, imported_users, pc, req,
    user, userRole, csvContent, lines, cols, i, rows, errors, csvRows,
    generatedUsers, responses, fn, input, output, file, loading, uploads,
    toasts, shownUsers>>

\* the variables of a helper called on its own, and of the uploader
fnVars == <<fn, input, output>>

clientVars == <<file, loading, uploads, toasts, shownUsers>>

\* the variables of the request handler and of its tables
serverVars ==
  <<variant, birthday_maxYear, currentYear, user_roles, imported_users, pc, req,
    user, userRole, csvContent, lines, cols, i, rows, errors, csvRows,
    generatedUsers, responses>>

dbVars == <<variant, birthday_maxYear, currentYear, user_roles>>

parseVars == <<lines, cols, i, rows, errors>>

NoCols == [headers |-> <<>>, nameIndex |-> -1, postalIndex |-> -1, birthdayIndex |-> -1]

NoRequest == [method |-> "", authHeader |-> <<>>]

Init ==
  /\ variant \in {"strict", "permissive"}
  /\ birthday_maxYear = FirstYear
  /\ currentYear = FirstYear
  /\ user_roles = {[user_id |-> "u1", role |-> "admin"],
                   [user_id |-> "u1", role |-> "user"],
                   [user_id |-> "u2", role |-> "user"]}
  /\ imported_users = <<ExistingRecord>>
  /\ pc = "idle"
  /\ req = NoRequest
  /\ user = <<>>
  /\ userRole = <<>>
  /\ csvContent = <<>>
  /\ lines = <<>>
  /\ cols = NoCols
  /\ i = 0
  /\ rows = <<>>
  /\ errors = <<>>
  /\ csvRows = <<>>
  /\ generatedUsers = <<>>
  /\ responses = <<>>
  /\ fn = ""
  /\ input = <<>>
  /\ output = <<>>
  /\ file = <<>>
  /\ loading = FALSE
  /\ uploads = <<>>
  /\ toasts = <<>>
  /\ shownUsers = <<>>

(***************************************************************************)
(* The request handler                                                     *)
(***************************************************************************)
\* lines 4-7 (and 313-316): the names of the CORS headers
corsHeaders == {"Access-Control-Allow-Origin", "Access-Control-Allow-Headers"}

Respond(status, body) ==
  /\ responses' =
       Append(responses,
              [status |-> status, body |-> body,
               headers |-> corsHeaders \cup {"Content-Type"}])
  /\ pc' = "done"

\* the catch block answering 500
Catch_500(error) == Respond(500, [error |-> error])

\* lines 298-307 (and 463-472): the catch block
Catch(error) == Respond(400, [error |-> error])

\* lines 197-199: the CORS preflight answer, new Response(null, {headers})
Preflight ==
  /\ responses' =
       Append(responses,
              [status |-> 200, body |-> <<>>, headers |-> corsHeaders])
  /\ pc' = "done"

\* Receive with the authorization header looked at before the method
Receive_AuthFirst ==
  /\ pc = "idle"
  /\ \E method \in Methods, authHeader \in AuthHeaders :
       /\ req' = [method |-> method, authHeader |-> authHeader]
       /\ IF authHeader = <<>>
            THEN Catch(Error("No authorization header", <<>>))
          ELSE IF method = "OPTIONS" THEN Preflight
          ELSE /\ pc' = "getUser"
               /\ UNCHANGED responses
  /\ UNCHANGED <<fnVars, clientVars, dbVars, imported_users, user, userRole,
                 csvContent, parseVars, csvRows, generatedUsers>>

\* lines 195-214: a request arrives and the handler runs to its first await
Receive ==
  /\ pc = "idle"
  /\ \E method \in Methods, authHeader \in AuthHeaders :
       /\ req' = [method |-> method, authHeader |-> authHeader]
       /\ IF method = "OPTIONS" THEN Preflight
          ELSE IF authHeader = <<>>
            THEN Catch(Error("No authorization header", <<>>))
          ELSE /\ pc' = "getUser"
               /\ UNCHANGED responses
  /\ UNCHANGED <<fnVars, clientVars, dbVars, imported_users, user, userRole,
                 csvContent, parseVars, csvRows, generatedUsers>>

\* lines 214-220 (405-411): supabase.auth.getUser answers
GetUser ==
  /\ pc = "getUser"
  /\ LET found == getUser(req.authHeader[1])
     IN  IF found = <<>>
           THEN Catch(Error("Unauthorized", <<>>)) /\ UNCHANGED user
         ELSE /\ user' = found
              /\ pc' = IF variant = "strict" THEN "role" ELSE "json"
              /\ UNCHANGED responses
  /\ UNCHANGED <<fnVars, clientVars, dbVars, imported_users, req, userRole,
                 csvContent, parseVars, csvRows, generatedUsers>>

\* lines 223-228: the rows the role query selects
adminRows(roles, user_id) ==
  {r \in roles : r.user_id = user_id /\ r.role = "admin"}

\* lines 223-246: the role query answers (strict variant only)
CheckRole ==
  /\ pc = "role"
  /\ \E roleError \in BOOLEAN :
       IF roleError
         THEN Catch(Error("Failed to verify user permissions", <<>>))
              /\ UNCHANGED userRole
       ELSE IF adminRows(user_roles, user[1]) = {}
         THEN Respond(403, [error |-> Error("Unauthorized: Admin role required", <<>>)])
              /\ UNCHANGED userRole
       ELSE /\ userRole' = <<"admin">>
            /\ pc' = "json"
            /\ UNCHANGED responses
  /\ UNCHANGED <<fnVars, clientVars, dbVars, imported_users, req, user,
                 csvContent, parseVars, csvRows, generatedUsers>>

\* lines 248-251 (413-416): the body is read and csvContent taken from it
ReadBody ==
  /\ pc = "json"
  /\ \E body \in Bodies :
       IF ~body.json
         THEN Catch(Error("Unexpected token in JSON", <<>>)) /\ UNCHANGED csvContent
       ELSE IF body.csvContent = <<>> \/ Length(body.csvContent[1]) = 0
         THEN Catch(Error("No CSV content provided", <<>>)) /\ UNCHANGED csvContent
       ELSE /\ csvContent' = body.csvContent
            /\ pc' = "parse"
            /\ UNCHANGED responses
  /\ UNCHANGED <<fnVars, clientVars, dbVars, imported_users, req, user,
                 userRole, parseVars, csvRows, generatedUsers>>

\* parseCSV up to the row-count check
ParseLimits ==
  /\ pc = "parse"
  /\ LET r == IF variant = "strict" THEN parseLimits(csvContent[1])
              ELSE parseLimitsP(csvContent[1])
     IN  IF r.threw THEN Catch(r.error) /\ UNCHANGED lines
         ELSE /\ lines' = r.lines
              /\ pc' = "headers"
              /\ UNCHANGED responses
  /\ UNCHANGED <<fnVars, clientVars, dbVars, imported_users, req, user,
                 userRole, csvContent, cols, i, rows, errors, csvRows,
                 generatedUsers>>

\* parseCSV from the header line to the start of the loop
ParseHeaders ==
  /\ pc = "headers"
  /\ LET r == IF variant = "strict" THEN parseHeaders(lines)
              ELSE parseHeadersP(lines)
     IN  /\ cols' = r.found
         /\ IF r.threw THEN Catch(r.error) /\ UNCHANGED i
            ELSE /\ i' = 1
                 /\ pc' = "loop"
                 /\ UNCHANGED responses
  /\ UNCHANGED <<fnVars, clientVars, dbVars, imported_users, req, user,
                 userRole, csvContent, lines, rows, errors, csvRows,
                 generatedUsers>>

\* one iteration of the loop of parseCSV
ParseRow ==
  /\ pc = "loop"
  /\ i < Len(lines)
  /\ LET r == IF variant = "strict"
                THEN parseRow(lines, i, cols, birthday_maxYear)
              ELSE parseRowP(lines, i, cols)
     IN  /\ rows' = rows \o r.rows
         /\ errors' = errors \o r.errors
  /\ i' = i + 1
  /\ UNCHANGED <<fnVars, clientVars, dbVars, imported_users, pc, req, user,
                 userRole, csvContent, lines, cols, csvRows, generatedUsers,
                 responses>>

\* line 383: the permissive parseCSV returns whatever rows it collected
parseResultP(rs) == [threw |-> FALSE, rows |-> rs, error |-> Error("", <<>>)]

\* the loop has ended: parseCSV throws or returns (lines 184-192, 254)
ParseFinish ==
  /\ pc = "loop"
  /\ i >= Len(lines)
  /\ LET r == IF variant = "strict" THEN parseResult(rows, errors)
              ELSE parseResultP(rows)
     IN  IF r.threw THEN Catch(r.error) /\ UNCHANGED csvRows
         ELSE /\ csvRows' = <<r.rows>>
              /\ pc' = "generate"
              /\ UNCHANGED responses
  /\ UNCHANGED <<fnVars, clientVars, dbVars, imported_users, req, user,
                 userRole, csvContent, parseVars, generatedUsers>>

\* generateUsers listing the users last row first
generateUsers_Reversed(rs, arrays) ==
  [k \in 1..Len(rs) |->
     [full_name |-> rs[Len(rs) + 1 - k].name,
      postal_code |-> rs[Len(rs) + 1 - k].postal_code,
      birthday |-> rs[Len(rs) + 1 - k].birthday,
      generated_email |-> generateEmail(rs[Len(rs) + 1 - k].name),
      generated_password |-> generateSecurePassword(arrays[k])]]

\* lines 258-264: csvRows.map(...) of the strict variant, arrays[k] being the
\* random bytes drawn for row k
generateUsers(rs, arrays) ==
  [k \in 1..Len(rs) |->
     [full_name |-> rs[k].name,
      postal_code |-> rs[k].postal_code,
      birthday |-> rs[k].birthday,
      generated_email |-> generateEmail(rs[k].name),
      generated_password |-> generateSecurePassword(arrays[k])]]

\* lines 423-429: csvRows.map(...) of the permissive variant
generateUsersP(rs) ==
  [k \in 1..Len(rs) |->
     [full_name |-> rs[k].name,
      postal_code |-> rs[k].postal_code,
      birthday |-> rs[k].birthday,
      generated_email |-> generateEmailP(rs[k].name),
      generated_password |->
        generatePassword(rs[k].name, rs[k].postal_code, rs[k].birthday)]]

\* a row of the permissive variant on which the string methods of
\* generateEmail / generatePassword throw a TypeError
HasUndefined(row) ==
  row.name = undefined \/ row.postal_code = undefined \/ row.birthday = undefined

\* credentials are generated for every parsed row
Generate ==
  /\ pc = "generate"
  /\ IF variant = "strict"
       THEN \E arrays \in [1..Len(csvRows[1]) -> RandomArrays(PasswordLength)] :
              /\ generatedUsers' = generateUsers(csvRows[1], arrays)
              /\ pc' = "insert"
              /\ UNCHANGED responses
     ELSE IF \E k \in 1..Len(csvRows[1]) : HasUndefined(csvRows[1][k])
       THEN Catch(Error("Cannot read properties of undefined", <<>>))
            /\ UNCHANGED generatedUsers
     ELSE /\ generatedUsers' = generateUsersP(csvRows[1])
          /\ pc' = "insert"
          /\ UNCHANGED responses
  /\ UNCHANGED <<fnVars, clientVars, dbVars, imported_users, req, user,
                 userRole, csvContent, parseVars, csvRows>>

\* lines 270-277 (435-442): the records handed to insert
insertRecords(users, user_id) ==
  [k \in 1..Len(users) |->
     [imported_by |-> user_id,
      full_name |-> users[k].full_name,
      postal_code |-> users[k].postal_code,
      birthday |-> users[k].birthday,
      generated_email |-> users[k].generated_email,
      generated_password |-> users[k].generated_password]]

\* lines 287-297 (452-462): the success response
successBody(users) == [success |-> TRUE, users |-> users, count |-> Len(users)]

\* the two digits s[p], s[p + 1] as a number
twoDigits(s, p) == DigitValue(s[p]) * 10 + DigitValue(s[p + 1])

isLeapYear(y) == (y % 4 = 0 /\ y % 100 # 0) \/ y % 400 = 0

daysInMonth(y, m) ==
  IF m = 2 THEN (IF isLeapYear(y) THEN 29 ELSE 28)
  ELSE IF m \in {4, 6, 9, 11} THEN 30
  ELSE 31

\* line 539, `birthday date`: the texts (of the forms met here) that the
\* date column accepts
acceptsDate(s) ==
  /\ s # undefined
  /\ birthday_pattern(s)
  /\ twoDigits(s, 6) \in 1..12
  /\ twoDigits(s, 9) \in 1..daysInMonth(yearOf(s), twoDigits(s, 6))

\* lines 534-543: the batch fits the columns of imported_users
tableAccepts(records) ==
  \A k \in 1..Len(records) : acceptsDate(records[k].birthday)

\* lines 267-297 (432-462): the insert answers; on success the 200 is sent.
\* insertError is set when the database cannot be reached or when the table
\* rejects the batch.
Insert ==
  /\ pc = "insert"
  /\ \E unreachable \in BOOLEAN :
       LET records == insertRecords(generatedUsers, user[1])
       IN  IF unreachable
             THEN Catch(Error("insert failed", <<>>)) /\ UNCHANGED imported_users
           ELSE IF ~tableAccepts(records)
             THEN Catch(Error("date/time field value out of range", <<>>))
                  /\ UNCHANGED imported_users
           ELSE /\ imported_users' = imported_users \o records
                /\ Respond(200, successBody(generatedUsers))
  /\ UNCHANGED <<fnVars, clientVars, dbVars, req, user, userRole, csvContent,
                 parseVars, csvRows, generatedUsers>>

\* a new calendar year begins; VALIDATION keeps the year of the module load
NewYear ==
  /\ currentYear < FirstYear + MaxYearDrift
  /\ currentYear' = currentYear + 1
  /\ UNCHANGED <<variant, birthday_maxYear, user_roles, imported_users, pc, req,
                 user, userRole, csvContent, parseVars, csvRows, generatedUsers,
                 responses, fnVars, clientVars>>

Next ==
  \/ Receive
  \/ GetUser
  \/ CheckRole
  \/ ReadBody
  \/ ParseLimits
  \/ ParseHeaders
  \/ ParseRow
  \/ ParseFinish
  \/ Generate
  \/ Insert
  \/ NewYear

Spec == Init /\ [][Next]_vars

(***************************************************************************)
(* Vocabulary of the properties                                            *)
(***************************************************************************)
Done == pc = "done"

IsPost == req.method = "POST"

\* the status and body of the response, once it has been sent
status == responses[1].status

body == responses[1].body

ErrorText == IF "error" \in DOMAIN body THEN body.error.text ELSE ""

TableUnchanged == imported_users = <<ExistingRecord>>

\* the records the handler has inserted
Inserted == SubSeq(imported_users, 2, Len(imported_users))

\* the token belongs to a user without an admin row
NonAdminUser == user # <<>> /\ adminRows(user_roles, user[1]) = {}

(***************************************************************************)
(* C1: a POST whose token belongs to a user without an admin row in        *)
(* user_roles is answered 403 (given that the role query itself answers),  *)
(* whatever the body holds.                                                *)
(***************************************************************************)
C1_NonAdminGets403 ==
  (Done /\ IsPost /\ NonAdminUser
     /\ ErrorText # "Failed to verify user permissions")
    => status = 403

(***************************************************************************)
(* C2: rows are inserted into imported_users only after the token was      *)
(* verified, the admin role was confirmed and parseCSV returned; a request *)
(* that does not end in 200 leaves imported_users unchanged.               *)
(***************************************************************************)
C2_InsertOnlyAfterChecks ==
  /\ ~TableUnchanged => (user # <<>> /\ userRole # <<>> /\ csvRows # <<>>)
  /\ (Done /\ IsPost /\ status # 200) => TableUnchanged

(***************************************************************************)
(* C3: every record the strict variant inserts has a full_name of 1..100   *)
(* characters matching the name pattern, a postal_code of 1..20 characters *)
(* matching the postal pattern and a birthday matching YYYY-MM-DD with its *)
(* year in [1900, current year]; the inserted values are the validated     *)
(* values of the rows, unchanged.                                          *)
(***************************************************************************)
RecordValid(r) ==
  /\ Len(r.full_name) >= 1
  /\ Len(r.full_name) <= 100
  /\ name_pattern(r.full_name)
  /\ Len(r.postal_code) >= 1
  /\ Len(r.postal_code) <= 20
  /\ postal_code_pattern(r.postal_code)
  /\ birthday_pattern(r.birthday)
  /\ yearOf(r.birthday) >= 1900
  /\ yearOf(r.birthday) <= currentYear

C3_InsertedRecordsValid ==
  variant = "strict" =>
    /\ \A k \in 1..Len(Inserted) : RecordValid(Inserted[k])
    /\ Len(Inserted) > 0 =>
         /\ Len(Inserted) = Len(rows)
         /\ \A k \in 1..Len(rows) :
              /\ Inserted[k].full_name = rows[k].name
              /\ Inserted[k].postal_code = rows[k].postal_code
              /\ Inserted[k].birthday = rows[k].birthday

\* the strict variant inserted the sanitized row of D_quoted
C3_Witness ==
  /\ variant = "strict"
  /\ Done
  /\ Len(Inserted) = 2
  /\ \E k \in 1..2 : Inserted[k].full_name = <<"D","i","-","O","'","x",".">>

(***************************************************************************)
(* C4: in the strict parseCSV every non-blank data line yields exactly one *)
(* row or exactly one error, so rows and errors together count the         *)
(* non-blank data lines; once the loop has run, parseCSV throws exactly    *)
(* when no row survived and otherwise returns the surviving rows.          *)
(***************************************************************************)
\* the lines of the text that are not blank, the header line included
HasInk(line) == \E p \in 1..Len(line) : NotSpace(line[p])

NonBlankLineCount(c) == Len(SelectSeq(split(c.text, "\n"), HasInk))

\* the loop of parseCSV has run to its end and parseCSV has thrown or returned
LoopEnded == i > 0 /\ i >= Len(lines) /\ pc # "loop"

C4_RowOrError ==
  variant = "strict" =>
    /\ i = 0 => (rows = <<>> /\ errors = <<>>)
    /\ i > 0 => Len(rows) + Len(errors) = i - 1
    /\ LoopEnded =>
         /\ Len(rows) + Len(errors) = NonBlankLineCount(csvContent[1]) - 1
         /\ (csvRows = <<>>) <=> (Len(rows) = 0)
         /\ Len(rows) = 0 =>
              (Done /\ status = 400 /\ ErrorText = "No valid data rows found in CSV")
         /\ Len(rows) > 0 => csvRows = <<rows>>

\* parseCSV returned a row although another line was rejected
C4_Witness ==
  /\ variant = "strict"
  /\ csvRows # <<>>
  /\ Len(rows) = 1
  /\ Len(errors) = 1

(***************************************************************************)
(* C5: in the strict parseCSV a data line whose birthday has a year below  *)
(* 1900 or above the current year adds no row and adds one error; the      *)
(* batch then still returns the other rows when there is one, and is       *)
(* rejected (parseCSV throws, status 400) when there is none.              *)
(***************************************************************************)
\* the sanitized birthday field of data line j
birthdayField(j) ==
  At(map(split(trim(At(lines, j)), ","), sanitizeCSVValue), cols.birthdayIndex)

YearOutOfRange(b) ==
  /\ b # undefined
  /\ birthday_pattern(b)
  /\ (yearOf(b) < 1900 \/ yearOf(b) > currentYear)

HasBirthYearError == \E k \in 1..Len(errors) : errors[k].error = BirthYearError

C5_Step ==
  (/\ variant = "strict"
   /\ pc = "loop"
   /\ i < Len(lines)
   /\ i' = i + 1
   /\ YearOutOfRange(birthdayField(i)))
    => (rows' = rows /\ Len(errors') = Len(errors) + 1)

C5_Outcome ==
  (variant = "strict" /\ LoopEnded /\ HasBirthYearError) =>
    IF Len(rows) = 0
      THEN csvRows = <<>> /\ Done /\ status = 400
    ELSE /\ csvRows = <<rows>>
         /\ \A k \in 1..Len(rows) : ~YearOutOfRange(rows[k].birthday)
         /\ Done => \/ status = 200
                    \/ ErrorText \in {"insert failed",
                                      "date/time field value out of range"}

C5_YearOutOfRangeExcluded == [][C5_Step]_vars /\ []C5_Outcome

\* a batch with a birthday out of range was answered 200 for its other row
C5_Witness ==
  /\ variant = "strict"
  /\ Done
  /\ IsPost
  /\ status = 200
  /\ HasBirthYearError

(***************************************************************************)
(* C6: when the content is longer than maxFileSize or holds more than      *)
(* maxRows data lines, the strict parseCSV throws before the header is     *)
(* read and before any data line is sanitized or validated: no row, no     *)
(* per-row error, and the request ends in 400.                             *)
(***************************************************************************)
OverLimits(c) ==
  Length(c) > maxFileSize \/ NonBlankLineCount(c) - 1 > maxRows

C6_LimitsBeforeRows ==
  (variant = "strict" /\ csvContent # <<>> /\ OverLimits(csvContent[1])) =>
    /\ pc \in {"parse", "done"}
    /\ lines = <<>>
    /\ cols = NoCols
    /\ i = 0
    /\ rows = <<>>
    /\ errors = <<>>
    /\ csvRows = <<>>
    /\ TableUnchanged
    /\ Done => (/\ status = 400
                /\ ErrorText \in {"CSV file is too large", "CSV has too many rows"})

\* too many rows under a header that names no required column
C6_Witness ==
  /\ variant = "strict"
  /\ Done
  /\ csvContent # <<>>
  /\ SubSeq(csvContent[1].text, 1, Len(H_none)) = H_none
  /\ ErrorText = "CSV has too many rows"

(***************************************************************************)
(* C7: a CSV that holds a header line and no data line (the other lines,   *)
(* if any, being blank) is rejected by both variants: parseCSV throws, the *)
(* response is 400 and nothing is inserted.                                *)
(***************************************************************************)
HeaderOnly(c) == NonBlankLineCount(c) = 1

C7_HeaderOnlyRejected ==
  (csvContent # <<>> /\ HeaderOnly(csvContent[1])) =>
    /\ pc \in {"parse", "done"}
    /\ csvRows = <<>>
    /\ TableUnchanged
    /\ Done => (status = 400
                /\ ErrorText = "CSV must contain headers and at least one data row")

\* the permissive variant rejected a header followed by blank lines
C7_Witness ==
  /\ variant = "permissive"
  /\ Done
  /\ csvContent # <<>>
  /\ HeaderOnly(csvContent[1])
  /\ Len(split(csvContent[1].text, "\n")) = 3
  /\ status = 400

(***************************************************************************)
(* C8: a CSV in which no header resolves one of the required columns is    *)
(* rejected as a whole.  As first stated, the error message then names     *)
(* exactly the missing columns (C8_Original).  As amended: the CSV is      *)
(* rejected (parseCSV throws, status 400, nothing inserted); the strict    *)
(* variant's message lists exactly the missing columns when the CSV is     *)
(* within the size and row limits and has a data line, and is the size,    *)
(* row-count or no-data-row message otherwise; the permissive variant's    *)
(* message is one fixed text naming all three columns whenever its trimmed *)
(* text has two lines or more.                                             *)
(***************************************************************************)
RequiredColumns == {"name", "postal code", "birthday"}

MissingText == "CSV is missing required columns"

FixedTextP == "CSV must contain 'name', 'postal_code', and 'birthday' columns"

\* the header cells of the first non-blank line, as the deployed variant
\* reads them
HeaderCells(c) ==
  LET t == trim(c.text)
      ends == SelectSeq(Indices(t), LAMBDA p : t[p] = "\n")
      headerLine == IF ends = <<>> THEN t ELSE SubSeq(t, 1, ends[1] - 1)
      cells == split(headerLine, ",")
  IN  IF variant = "strict"
        THEN {toLowerCase(sanitizeCSVValue(cells[k])) : k \in 1..Len(cells)}
      ELSE {toLowerCase(trim(cells[k])) : k \in 1..Len(cells)}

Resolves(col, h) ==
  IF variant = "strict"
    THEN \/ col = "name" /\ IsNameHeader(h)
         \/ col = "postal code" /\ IsPostalHeader(h)
         \/ col = "birthday" /\ IsBirthdayHeader(h)
  ELSE \/ col = "name" /\ IsNameHeaderP(h)
       \/ col = "postal code" /\ IsPostalHeaderP(h)
       \/ col = "birthday" /\ IsBirthdayHeaderP(h)

\* the required columns that no header cell resolves
Unresolved(c) ==
  {col \in RequiredColumns : ~\E h \in HeaderCells(c) : Resolves(col, h)}

\* the required columns the error message of the response names
NamedColumns ==
  IF ErrorText = MissingText
    THEN {body.error.args[1][k] : k \in 1..Len(body.error.args[1])}
  ELSE IF ErrorText = FixedTextP THEN RequiredColumns
  ELSE {}

C8_Original ==
  (Done /\ csvContent # <<>> /\ Unresolved(csvContent[1]) # {}) =>
    /\ status = 400
    /\ TableUnchanged
    /\ NamedColumns = Unresolved(csvContent[1])

C8_Amended ==
  (csvContent # <<>> /\ Unresolved(csvContent[1]) # {}) =>
    /\ pc \in {"parse", "headers", "done"}
    /\ csvRows = <<>>
    /\ TableUnchanged
    /\ Done =>
         /\ status = 400
         /\ IF variant = "strict"
              THEN IF Length(csvContent[1]) > maxFileSize
                     THEN ErrorText = "CSV file is too large"
                   ELSE IF NonBlankLineCount(csvContent[1]) < 2
                     THEN ErrorText = "CSV must contain headers and at least one data row"
                   ELSE IF NonBlankLineCount(csvContent[1]) - 1 > maxRows
                     THEN ErrorText = "CSV has too many rows"
                   ELSE /\ ErrorText = MissingText
                        /\ NamedColumns = Unresolved(csvContent[1])
            ELSE IF Len(split(trimContent(csvContent[1]), "\n")) >= 2
              THEN ErrorText = FixedTextP
            ELSE ErrorText = "CSV must contain headers and at least one data row"

\* the strict variant named the postal code, and only it, as missing
C8_Witness ==
  /\ variant = "strict"
  /\ Done
  /\ ErrorText = MissingText
  /\ NamedColumns = {"postal code"}

(***************************************************************************)
(* C9: every POST ends with exactly one response, of status 200, 400 or    *)
(* 403; 403 is sent only when the token's user lacks the admin role, and   *)
(* every failure (no authorization header, invalid token, role query       *)
(* error, no csvContent, parsing failure, no valid row, insert failure) is *)
(* sent as 400 with a body {error: message}.                               *)
(***************************************************************************)
ParseErrorTexts ==
  {"CSV file is too large", "CSV must contain headers and at least one data row",
   "CSV has too many rows", MissingText, FixedTextP,
   "No valid data rows found in CSV"}

C9_OneResponse ==
  /\ ~Done => responses = <<>>
  /\ (Done /\ IsPost) =>
       /\ Len(responses) = 1
       /\ status \in {200, 400, 403}
       /\ status = 403 =>
            (NonAdminUser /\ ErrorText = "Unauthorized: Admin role required")
       /\ status # 200 => DOMAIN body = {"error"}
       /\ status = 200 => (csvRows # <<>> /\ body = successBody(generatedUsers))
       /\ req.authHeader = <<>> =>
            (status = 400 /\ ErrorText = "No authorization header")
       /\ (req.authHeader # <<>> /\ user = <<>>) =>
            (status = 400 /\ ErrorText = "Unauthorized")
       /\ (variant = "strict" /\ user # <<>> /\ userRole = <<>>) =>
            \/ status = 403
            \/ status = 400 /\ ErrorText = "Failed to verify user permissions"
       /\ (user # <<>> /\ (variant = "strict" => userRole # <<>>)
             /\ csvContent = <<>>) =>
            /\ status = 400
            /\ ErrorText \in {"Unexpected token in JSON", "No CSV content provided"}
       /\ (csvContent # <<>> /\ csvRows = <<>>) =>
            (status = 400 /\ ErrorText \in ParseErrorTexts)
       /\ (csvRows # <<>> /\ status # 200) =>
            /\ status = 400
            /\ ErrorText \in {"insert failed", "date/time field value out of range",
                             "Cannot read properties of undefined"}

\* a POST of an admin ended in 400 because the insert failed
C9_Witness ==
  /\ Done
  /\ IsPost
  /\ userRole # <<>>
  /\ status = 400
  /\ ErrorText = "insert failed"

(***************************************************************************)
(* C10: on a 200 the users of the response are one GeneratedUser per Row   *)
(* parseCSV returned, in the order of the lines they came from; count is   *)
(* the length of users; the records inserted are these users in the same   *)
(* order, each with imported_by the id of the token's user.                *)
(***************************************************************************)
\* the Row the deployed variant reads from data line j
RowOfLine(j) ==
  LET values ==
        IF variant = "strict"
          THEN map(split(trim(At(lines, j)), ","), sanitizeCSVValue)
        ELSE map(split(At(lines, j), ","), LAMBDA v : stripQuotes(trim(v)))
  IN  [name |-> At(values, cols.nameIndex),
       postal_code |-> At(values, cols.postalIndex),
       birthday |-> At(values, cols.birthdayIndex)]

\* data line j is promoted to a Row
LinePromoted(j) ==
  IF variant = "strict"
    THEN /\ validateName(RowOfLine(j).name).valid
         /\ validatePostalCode(RowOfLine(j).postal_code).valid
         /\ validateBirthday(RowOfLine(j).birthday, birthday_maxYear).valid
  ELSE Len(split(At(lines, j), ",")) >= 3

\* the rows of the promoted lines, in the order of the lines
RowsInLineOrder ==
  LET promoted == SelectSeq([j \in 1..(Len(lines) - 1) |-> j], LinePromoted)
  IN  [k \in 1..Len(promoted) |-> RowOfLine(promoted[k])]

C10_UsersMatchRows ==
  (Done /\ IsPost /\ status = 200) =>
    /\ csvRows[1] = RowsInLineOrder
    /\ Len(body.users) = Len(csvRows[1])
    /\ \A k \in 1..Len(body.users) :
         /\ body.users[k].full_name = csvRows[1][k].name
         /\ body.users[k].postal_code = csvRows[1][k].postal_code
         /\ body.users[k].birthday = csvRows[1][k].birthday
         /\ Inserted[k] =
              [imported_by |-> user[1],
               full_name |-> body.users[k].full_name,
               postal_code |-> body.users[k].postal_code,
               birthday |-> body.users[k].birthday,
               generated_email |-> body.users[k].generated_email,
               generated_password |-> body.users[k].generated_password]
    /\ body.count = Len(body.users)
    /\ Len(Inserted) = Len(body.users)

\* a 200 for two different rows
C10_Witness ==
  /\ variant = "strict"
  /\ Done
  /\ IsPost
  /\ status = 200
  /\ body.count = 2
  /\ body.users[1].full_name # body.users[2].full_name

(***************************************************************************)
(* The helpers called on their own: generateEmail, generateSecurePassword, *)
(* sanitizeCSVValue and the header resolution of parseCSV, each applied to *)
(* one argument drawn from a bounded set                                   *)
(***************************************************************************)
\* the longest name enumerated
MaxNameLen == 3

\* the strings of at most n characters over chars
Strings(chars, n) == UNION {[1..k -> chars] : k \in 0..n}

\* characters of an enumerated name: letters of both cases, a space, the
\* punctuation name_pattern allows, and a digit it does not allow
NameChars == {"A", "b", " ", "-", ".", "1"}

Names == Strings(NameChars, MaxNameLen)

\* generateEmail of the deployed variant
emailOf(name) ==
  IF variant = "strict" THEN generateEmail(name) ELSE generateEmailP(name)

\* two parsed rows that share a name and differ in every other field
TwinRows(name) ==
  <<[name |-> name, postal_code |-> <<"A","1">>,
     birthday |-> <<"2","0","0","0","-","0","1","-","0","2">>],
    [name |-> name, postal_code |-> <<"9">>,
     birthday |-> <<"1","9","9","9","-","1","2","-","3","1">>]>>

\* the random bytes drawn for the two rows
TwinArrays ==
  <<[k \in 1..PasswordLength |-> (69 * k) % 256],
    [k \in 1..PasswordLength |-> (255 * k) % 256]>>

\* generateEmail is called on a name and again on its own result, and the
\* map callback of the handler is run on two rows that carry the name
CallGenerateEmail ==
  /\ fn = ""
  /\ \E name \in Names :
       /\ fn' = "generateEmail"
       /\ input' = name
       /\ output' =
            [once |-> emailOf(name),
             twice |-> emailOf(emailOf(name)),
             users |-> IF variant = "strict"
                         THEN generateUsers(TwinRows(name), TwinArrays)
                         ELSE generateUsersP(TwinRows(name))]
  /\ UNCHANGED <<serverVars, clientVars>>

\* the values a byte of the Uint8Array can hold
Bytes == 0..255

\* the arrays crypto.getRandomValues may fill: every byte value occurs, in
\* ascending and in descending runs
ByteArrays ==
  {[k \in 1..PasswordLength |-> (b + d * (k - 1)) % 256] :
     b \in Bytes, d \in {1, 255}}

\* lines 92-100: generateSecurePassword(16) is called
CallGenerateSecurePassword ==
  /\ fn = ""
  /\ variant = "strict"
  /\ \E array \in ByteArrays :
       /\ fn' = "generateSecurePassword"
       /\ input' = array
       /\ output' = generateSecurePassword(array)
  /\ UNCHANGED <<serverVars, clientVars>>

\* the longest raw field enumerated
MaxRawLen == 3

\* characters of an enumerated raw field: two formula characters, a letter,
\* a digit, a quote and a space
RawChars == {"=", "-", "a", "1", "\"", " "}

RawValues == Strings(RawChars, MaxRawLen)

\* a CSV whose first data line has the raw value as its name and whose second
\* has it as its postal code
RawLines(raw) ==
  <<H_std,
    raw \o <<",","9",",","2","0","0","0","-","0","1","-","0","2">>,
    <<"A","l",",">> \o raw \o <<",","2","0","0","0","-","0","1","-","0","2">>>>

\* lines 32-41 and 153-181: sanitizeCSVValue is called on a raw field, and
\* the loop of parseCSV is run on the two lines that carry it
CallSanitizeCSVValue ==
  /\ fn = ""
  /\ variant = "strict"
  /\ \E raw \in RawValues :
       LET found == parseHeaders(RawLines(raw)).found
       IN  /\ fn' = "sanitizeCSVValue"
           /\ input' = raw
           /\ output' =
                [value |-> sanitizeCSVValue(raw),
                 rows |-> parseRow(RawLines(raw), 1, found, birthday_maxYear).rows
                            \o parseRow(RawLines(raw), 2, found, birthday_maxYear).rows]
  /\ UNCHANGED <<serverVars, clientVars>>

\* the most columns of an enumerated header line
MaxColumns == 3

\* the column names of an enumerated header line
ColumnNames ==
  {W_name, W_zip, W_postal, W_dob, W_birth, <<"i","d">>,
   <<"p","o","s","t","a","l","_","n","a","m","e">>}

RECURSIVE JoinCells(_)
\* the cells joined by commas
JoinCells(cells) ==
  IF Len(cells) = 1 THEN cells[1]
  ELSE cells[1] \o <<",">> \o JoinCells(Tail(cells))

HeaderLines ==
  {JoinCells(cells) : cells \in UNION {[1..k -> ColumnNames] : k \in 1..MaxColumns}}

\* lines 125-147 (and 362-369): the header line of a CSV is resolved
CallParseHeaders ==
  /\ fn = ""
  /\ \E headerLine \in HeaderLines :
       /\ fn' = "parseHeaders"
       /\ input' = headerLine
       /\ output' = IF variant = "strict" THEN parseHeaders(<<headerLine>>)
                                          ELSE parseHeadersP(<<headerLine>>)
  /\ UNCHANGED <<serverVars, clientVars>>

NextHelpers ==
  \/ CallGenerateEmail
  \/ CallGenerateSecurePassword
  \/ CallSanitizeCSVValue
  \/ CallParseHeaders

SpecHelpers == Init /\ [][NextHelpers]_vars

(***************************************************************************)
(* C11: email generation is deterministic and idempotent                   *)
(***************************************************************************)
EmailCalled == fn = "generateEmail"

SameEmailForSameName ==
  /\ output.users[1].generated_email = output.once
  /\ output.users[2].generated_email = output.once

IsLower(c) == c \in LowerSet

\* C11 as stated: the email generated for a name depends on the name alone,
\* and generating an email from a generated email returns it unchanged
C11_Original ==
  EmailCalled => SameEmailForSameName /\ output.twice = output.once

\* C11 amended: the email generated for a name depends on the name alone, so
\* two rows that share a name get the same email whatever their other fields
\* and random bytes; generating an email from a generated email never returns
\* it unchanged: the strict variant returns its letters followed by
\* "@company.com", the permissive variant returns it followed by a second
\* "@company.com"
C11_Amended ==
  EmailCalled =>
    /\ SameEmailForSameName
    /\ output.twice # output.once
    /\ output.twice =
         (IF variant = "strict" THEN SelectSeq(output.once, IsLower)
                                ELSE output.once) \o AtCompany

\* a name of two words has been turned into an email twice over, and the two
\* rows that carry it differ in their postal code and password
C11_Witness ==
  /\ EmailCalled
  /\ input = <<"A", " ", "b">>
  /\ output.once = <<"a", ".", "b">> \o AtCompany
  /\ output.users[1].postal_code # output.users[2].postal_code
  /\ output.users[1].generated_password # output.users[2].generated_password

(***************************************************************************)
(* C12: the shape of the generated email                                   *)
(***************************************************************************)
\* the part of an email before "@company.com"
LocalPart(email) == SubSeq(email, 1, Len(email) - Len(AtCompany))

EndsAtCompany(email) ==
  /\ Len(email) >= Len(AtCompany)
  /\ SubSeq(email, Len(email) - Len(AtCompany) + 1, Len(email)) = AtCompany

\* lowercase words joined by single periods
WordsJoinedByPeriods(local) ==
  /\ Len(local) > 0
  /\ \A k \in 1..Len(local) : local[k] \in LowerSet \cup {"."}
  /\ local[1] # "."
  /\ local[Len(local)] # "."
  /\ \A k \in 1..(Len(local) - 1) : ~(local[k] = "." /\ local[k + 1] = ".")

\* C12: for every name validateName accepts, the email of the strict variant
\* is a non-empty local part of letters a-z and periods, with no leading,
\* trailing or consecutive period, followed by "@company.com"
C12_EmailWellFormed ==
  (EmailCalled /\ variant = "strict" /\ validateName(input).valid) =>
    /\ EndsAtCompany(output.once)
    /\ WordsJoinedByPeriods(LocalPart(output.once))

(***************************************************************************)
(* C13: the password drawn by generateSecurePassword                       *)
(***************************************************************************)
PasswordCalled == fn = "generateSecurePassword"

CharsetChars == {charset[k] : k \in 1..Len(charset)}

\* how many byte values generateSecurePassword turns into each character
ByteCount ==
  [c \in CharsetChars |->
     Cardinality({x \in Bytes : generateSecurePassword(<<x>>) = <<c>>})]

\* C13: generateSecurePassword(16) returns 16 characters of the 70-character
\* charset, and the reduction of a byte modulo the charset length gives every
\* character of the charset the same number of byte values
C13_PasswordUniform ==
  PasswordCalled =>
    /\ Len(output) = PasswordLength
    /\ \A k \in 1..Len(output) :
         /\ output[k] \in CharsetChars
         /\ \A c \in CharsetChars : ByteCount[output[k]] = ByteCount[c]

(***************************************************************************)
(* C16: sanitization and formula injection                                 *)
(***************************************************************************)
SanitizeCalled == fn = "sanitizeCSVValue"

BeginsFormula(v) == \E c \in FormulaSet : startsWith(v, c)

\* C16: the value sanitizeCSVValue returns for a raw field does not begin
\* with "=", "+", "-" or "@", and neither does the name or the postal code
\* of a row the strict parser accepts
C16_NoFormulaPrefix ==
  SanitizeCalled =>
    /\ ~BeginsFormula(output.value)
    /\ \A k \in 1..Len(output.rows) :
         /\ ~BeginsFormula(output.rows[k].name)
         /\ ~BeginsFormula(output.rows[k].postal_code)

(***************************************************************************)
(* C18: the resolved column positions                                      *)
(***************************************************************************)
HeadersCalled == fn = "parseHeaders"

\* C18: when header resolution succeeds, the positions resolved for name,
\* postal code and birthday are pairwise distinct
C18_DistinctColumns ==
  (HeadersCalled /\ ~output.threw) =>
    /\ output.found.nameIndex # output.found.postalIndex
    /\ output.found.nameIndex # output.found.birthdayIndex
    /\ output.found.postalIndex # output.found.birthdayIndex

(***************************************************************************)
(* C15: the CORS preflight                                                 *)
(***************************************************************************)
IsOptions == pc # "idle" /\ req.method = "OPTIONS"

\* C15: an OPTIONS request is answered at once with the CORS headers, an
\* empty body and no error status, whether or not it carries an
\* authorization header; no user is resolved, no role looked up, no body
\* read, nothing parsed, and the table is left as it was
C15_PreflightUnconditional ==
  IsOptions =>
    /\ pc = "done"
    /\ responses =
         <<[status |-> 200, body |-> <<>>, headers |-> corsHeaders]>>
    /\ user = <<>>
    /\ userRole = <<>>
    /\ csvContent = <<>>
    /\ lines = <<>>
    /\ csvRows = <<>>
    /\ generatedUsers = <<>>
    /\ TableUnchanged

\* an OPTIONS request without an authorization header has been answered
C15_Witness ==
  /\ IsOptions
  /\ req.authHeader = <<>>
  /\ Len(responses) = 1
  /\ responses[1].status = 200

(***************************************************************************)
(* C17: the birthdays of the parsed rows                                   *)
(***************************************************************************)
RejectedByDateColumn ==
  Done /\ IsPost /\ ErrorText = "date/time field value out of range"

\* C17: every row the strict parser produces carries a birthday that is a
\* calendar date (month 01 to 12, a day of that month), so that a batch that
\* passed validation is never rejected by the date column of imported_users
C17_BirthdaysAreDates ==
  variant = "strict" =>
    /\ \A k \in 1..Len(rows) : acceptsDate(rows[k].birthday)
    /\ \A r \in 1..Len(csvRows) : \A k \in 1..Len(csvRows[r]) :
         acceptsDate(csvRows[r][k].birthday)
    /\ ~RejectedByDateColumn

(***************************************************************************)
(* The uploader component (src/components/CSVUploader.tsx)                 *)
(***************************************************************************)
\* the most uploads started, and the most files picked
MaxUploads == 2

MaxSelections == 2

\* the files the user may pick
Files ==
  {[name |-> "users.csv", type |-> "text/csv", isCsv |-> TRUE],
   [name |-> "notes.txt", type |-> "text/plain", isCsv |-> FALSE]}

Toast(kind, text) == [kind |-> kind, text |-> text]

SelectionTexts == {"Please select a valid CSV file", "CSV file selected"}

Selections == Cardinality({k \in 1..Len(toasts) : toasts[k].text \in SelectionTexts})

\* lines 24-34: the user picks a file; the input is disabled while loading
handleFileChange ==
  /\ ~loading
  /\ Selections < MaxSelections
  /\ \E selectedFile \in Files :
       IF ~selectedFile.isCsv
         THEN /\ toasts' = Append(toasts, Toast("error", "Please select a valid CSV file"))
              /\ UNCHANGED file
       ELSE /\ file' = <<selectedFile>>
            /\ toasts' = Append(toasts, Toast("success", "CSV file selected"))
  /\ UNCHANGED <<serverVars, fnVars, loading, uploads, shownUsers>>

\* lines 36-66: the user clicks the button, which is disabled without a
\* file and while loading.  The handler runs to its end in one turn of the
\* event loop: setLoading(true), the reader is created and readAsText is
\* started, and the finally block runs setLoading(false) before the
\* handler returns; the state rendered afterwards has loading false.
handleUpload ==
  /\ file # <<>>
  /\ ~loading
  /\ Len(uploads) < MaxUploads
  /\ uploads' = Append(uploads, [file |-> file[1], stage |-> "reading",
                                 error |-> <<>>])
  /\ loading' = FALSE
  /\ UNCHANGED <<serverVars, fnVars, file, toasts, shownUsers>>

\* lines 46-50: the file has been read; reader.onload runs to its await,
\* the invocation of parse-csv is sent
onload ==
  /\ \E k \in 1..Len(uploads) :
       /\ uploads[k].stage = "reading"
       /\ uploads' = [uploads EXCEPT ![k].stage = "invoking"]
  /\ UNCHANGED <<serverVars, fnVars, file, loading, toasts, shownUsers>>

\* the users of a 200 answer of the function
AnsweredUsers == generateUsers(TwinRows(<<"A", "l">>), TwinArrays)

\* what supabase.functions.invoke resolves to: the body of a 200 answer, or
\* an error for an answer that is not 2xx or for a request that failed
InvokeResults ==
  {[data |-> <<successBody(AnsweredUsers)>>, error |-> <<>>],
   [data |-> <<>>, error |-> <<"Edge Function returned a non-2xx status code">>],
   [data |-> <<>>, error |-> <<"Failed to send a request to the Edge Function">>]}

\* lines 48-58: the invocation resolves and reader.onload resumes.  On an
\* error it throws: the throw is in the async callback, which the reader
\* called from the event loop, so the promise of the callback is rejected
\* and no catch block of handleUpload runs.
invokeResolves ==
  /\ \E k \in 1..Len(uploads), result \in InvokeResults :
       /\ uploads[k].stage = "invoking"
       /\ IF result.error # <<>>
            THEN /\ uploads' = [uploads EXCEPT ![k].stage = "rejected",
                                               ![k].error = result.error]
                 /\ UNCHANGED <<toasts, shownUsers>>
          ELSE /\ uploads' = [uploads EXCEPT ![k].stage = "shown"]
               /\ shownUsers' = result.data[1].users
               /\ toasts' =
                    Append(toasts,
                           Toast("success",
                                 <<"Successfully generated credentials for users",
                                   Len(result.data[1].users)>>))
  /\ UNCHANGED <<serverVars, fnVars, file, loading>>

NextClient ==
  \/ handleFileChange
  \/ handleUpload
  \/ onload
  \/ invokeResolves

SpecClient == Init /\ [][NextClient]_vars

(***************************************************************************)
(* C14: a failed upload is shown                                           *)
(***************************************************************************)
\* the texts the catch block of handleUpload may show for an error
CatchTexts(error) == {error[1], "Failed to process CSV file"}

\* C14: once the invocation of an upload has returned an error and the
\* uploader has handled it, an error notification for it has been shown
C14_FailureShown ==
  \A k \in 1..Len(uploads) :
    uploads[k].stage = "rejected" =>
      \E t \in 1..Len(toasts) :
        /\ toasts[t].kind = "error"
        /\ toasts[t].text \in CatchTexts(uploads[k].error)

(***************************************************************************)
(* C19: loading while an upload is in flight                               *)
(***************************************************************************)
InFlight(k) == uploads[k].stage \in {"reading", "invoking"}

\* C19: from the start of handleUpload until the response is handled the
\* loading flag is true, so at most one upload of an uploader is in flight
C19_LoadingWhileInFlight ==
  /\ (\E k \in 1..Len(uploads) : InFlight(k)) => loading
  /\ Cardinality({k \in 1..Len(uploads) : InFlight(k)}) <= 1
====
